---- MODULE Spec2Model ----
(***************************************************************************)
(* Model of auto_eberhardt_v1.2_stable.py: the line scan of                *)
(* process_invoice, the totals extractors, generate_summary and the        *)
(* summary section of main's report.                                       *)
(*                                                                         *)
(* Text is modelled as it is: a line is a string, and `in`, strip, split   *)
(* and the regular expressions are computed character by character.        *)
(* Whitespace is the space character.  Money (a token of the form          *)
(* digits '.' two digits) is held in cents; a quantity (float of a token   *)
(* of digits with at most one '.') is held as the pair <<m, k>> meaning    *)
(* m / 10^k with trailing fractional zeros removed, so that two tokens     *)
(* denote the same pair exactly when float() gives the same number.        *)
(***************************************************************************)
EXTENDS Integers, Sequences, FiniteSets, TLC

VARIABLES
    lines,             \* text.split('\n'): the lines of the document
    database,          \* the reference table: rows of Item Code, GL Code, GL Description
    pc,                \* where main stands: scan, returned, tax, total, summary, display, done
    i,                 \* the number of lines process_invoice has scanned
    in_items_section,  \* process_invoice's flag
    product_id_found,  \* process_invoice's flag
    items,             \* the list process_invoice builds
    origin,            \* origin[n]: the line (1-based) whose scan appended items[n]
    body,              \* the lines that passed segmentation and reached extraction
    tax_total,         \* extract_tax(text), in cents
    invoice_total,     \* extract_invoice_total(text), in cents
    summary,           \* generate_summary(items): (key, sum) pairs in dict order
    report             \* the summary rows main prints, in order

vars == <<lines, database, pc, i, in_items_section, product_id_found,
          items, origin, body, tax_total, invoice_total, summary, report>>

(* ---------------------------- bounds ---------------------------------- *)

MaxLines == 3

MaxItemLines == 2

MaxTotalsLines == 3

(* ------------------------- string primitives -------------------------- *)

Ch(s, k) == SubSeq(s, k, k)

\* Python: sub in s
Contains(s, sub) ==
    \E k \in 0..(Len(s) - Len(sub)) : SubSeq(s, k + 1, k + Len(sub)) = sub

Digit == {"0", "1", "2", "3", "4", "5", "6", "7", "8", "9"}

Upper == {"A", "B", "C", "D", "E", "F", "G", "H", "I", "J", "K", "L", "M",
          "N", "O", "P", "Q", "R", "S", "T", "U", "V", "W", "X", "Y", "Z"}

AllDigits(s) == \A k \in 1..Len(s) : Ch(s, k) \in Digit

DigitVal(c) ==
    CASE c = "0" -> 0 [] c = "1" -> 1 [] c = "2" -> 2 [] c = "3" -> 3
      [] c = "4" -> 4 [] c = "5" -> 5 [] c = "6" -> 6 [] c = "7" -> 7
      [] c = "8" -> 8 [] c = "9" -> 9

RECURSIVE DigitsVal(_)
DigitsVal(s) ==
    IF Len(s) = 0 THEN 0
    ELSE DigitsVal(SubSeq(s, 1, Len(s) - 1)) * 10 + DigitVal(Ch(s, Len(s)))

\* Python: s.strip()
Strip(s) ==
    LET idx == {k \in 1..Len(s) : Ch(s, k) # " "}
    IN  IF idx = {} THEN ""
        ELSE SubSeq(s, CHOOSE a \in idx : \A b \in idx : a <= b,
                       CHOOSE a \in idx : \A b \in idx : a >= b)

RECURSIVE SplitFrom(_, _, _)
SplitFrom(s, k, cur) ==
    IF k > Len(s) THEN (IF cur = "" THEN <<>> ELSE <<cur>>)
    ELSE IF Ch(s, k) = " "
         THEN (IF cur = "" THEN <<>> ELSE <<cur>>) \o SplitFrom(s, k + 1, "")
         ELSE SplitFrom(s, k + 1, cur \o Ch(s, k))

\* Python: s.split()
Split(s) == SplitFrom(s, 1, "")

\* re.match(r"^[A-Z0-9]+$", s)
is_alphanumeric(s) ==
    Len(s) >= 1 /\ \A k \in 1..Len(s) : Ch(s, k) \in Upper \cup Digit

\* re.match(r"^\d+\.\d{2}$", p)
IsPrice(p) ==
    /\ Len(p) >= 4
    /\ Ch(p, Len(p) - 2) = "."
    /\ AllDigits(SubSeq(p, 1, Len(p) - 3))
    /\ AllDigits(SubSeq(p, Len(p) - 1, Len(p)))

\* float(p) of a price token, in cents
PriceVal(p) ==
    DigitsVal(SubSeq(p, 1, Len(p) - 3)) * 100 + DigitsVal(SubSeq(p, Len(p) - 1, Len(p)))

\* the price tokens of a token sequence, in order
RECURSIVE Prices(_)
Prices(parts) ==
    IF parts = <<>> THEN <<>>
    ELSE (IF IsPrice(Head(parts)) THEN <<Head(parts)>> ELSE <<>>) \o Prices(Tail(parts))

\* p.replace('.', '', 1).isdigit()
IsNumeric(p) ==
    LET dots == {k \in 1..Len(p) : Ch(p, k) = "."}
    IN  IF dots = {} THEN Len(p) >= 1 /\ AllDigits(p)
        ELSE LET d == CHOOSE a \in dots : \A b \in dots : a <= b
                 rest == SubSeq(p, 1, d - 1) \o SubSeq(p, d + 1, Len(p))
             IN  Len(rest) >= 1 /\ AllDigits(rest)

RECURSIVE StripZeros(_)
StripZeros(s) ==
    IF Len(s) >= 1 /\ Ch(s, Len(s)) = "0" THEN StripZeros(SubSeq(s, 1, Len(s) - 1))
    ELSE s

\* float(p) of a numeric token
FloatVal(p) ==
    LET dots == {k \in 1..Len(p) : Ch(p, k) = "."}
    IN  IF dots = {} THEN <<DigitsVal(p), 0>>
        ELSE LET d == CHOOSE a \in dots : TRUE
                 frac == StripZeros(SubSeq(p, d + 1, Len(p)))
             IN  <<DigitsVal(SubSeq(p, 1, d - 1) \o frac), Len(frac)>>

(* --------------------------- process_invoice -------------------------- *)

footer_indicators ==
    {"TRY OUR", "RECEIVED MERCHANDISE", "RETURNED", "SIGN", "RETURNS", "SERVICE CHARGE"}

non_product_words ==
    {"TRY", "RECEIVED", "PURCHASER", "SIGN", "RETURNS", "SERVICE",
     "EBERHARDT", "PURCHASE", "ORDER", "DIRECT", "SSP", "PRODUCT",
     "INVOICE", "SOLD", "CALL", "FUNDS", "PAGE", "VIA", "PH", "FAX"}

IsFooterLine(line) == \E indicator \in footer_indicators : Contains(line, indicator)

IsHeaderLine(line) == Contains(line, "PRODUCT ID") /\ Contains(line, "DESCRIPTION")

IsTotalLine(line) == Contains(line, "Sub Total") \/ Contains(line, "INVOICE TOTAL")

\* Segment without the `if not in_items_section: continue` gate
SegmentUngated(line, ins, pid) ==
    IF IsFooterLine(line)
    THEN [in_items_section |-> FALSE, product_id_found |-> pid, body |-> FALSE]
    ELSE IF IsHeaderLine(line)
    THEN [in_items_section |-> ins, product_id_found |-> TRUE, body |-> FALSE]
    ELSE IF IsTotalLine(line)
    THEN [in_items_section |-> FALSE, product_id_found |-> pid, body |-> FALSE]
    ELSE [in_items_section |-> TRUE, product_id_found |-> pid, body |-> TRUE]

\* The segmentation of one (stripped) line: the two flags after the line, and
\* whether the line goes on to extraction (body) or is left by a `continue`.
Segment(line, ins, pid) ==
    IF IsFooterLine(line)
    THEN [in_items_section |-> FALSE, product_id_found |-> pid, body |-> FALSE]
    ELSE IF IsHeaderLine(line)
    THEN [in_items_section |-> ins, product_id_found |-> TRUE, body |-> FALSE]
    ELSE LET ins2 == IF pid /\ ~ins THEN TRUE ELSE ins
         IN  IF ~ins2
             THEN [in_items_section |-> ins2, product_id_found |-> pid, body |-> FALSE]
             ELSE IF IsTotalLine(line)
             THEN [in_items_section |-> FALSE, product_id_found |-> pid, body |-> FALSE]
             ELSE [in_items_section |-> ins2, product_id_found |-> pid, body |-> TRUE]

\* IsItemLine with the stoplist tested by membership only
IsItemLineMembershipOnly(parts) ==
    /\ Len(parts) > 3
    /\ Len(parts[1]) >= 3
    /\ is_alphanumeric(parts[1])
    /\ parts[1] \notin non_product_words

\* the test that a line starts with a product code
IsItemLine(parts) ==
    /\ Len(parts) > 3
    /\ Len(parts[1]) >= 3
    /\ is_alphanumeric(parts[1])
    /\ parts[1] \notin non_product_words
    /\ ~ \E word \in non_product_words : Contains(parts[1], word)

\* quantity_candidates: float of the numeric tokens among parts[1..3] (0-based)
RECURSIVE QuantityCandidates(_, _)
QuantityCandidates(parts, j) ==
    IF j > Len(parts) \/ j > 4 THEN <<>>
    ELSE (IF IsNumeric(parts[j]) THEN <<FloatVal(parts[j])>> ELSE <<>>)
         \o QuantityCandidates(parts, j + 1)

RECURSIVE FirstPositive(_)
FirstPositive(qs) ==
    IF qs = <<>> THEN <<0, 0>>
    ELSE IF Head(qs)[1] > 0 THEN Head(qs) ELSE FirstPositive(Tail(qs))

\* Quantity taking the first candidate, zero or not
QuantityFirstCandidate(parts) ==
    LET qs == QuantityCandidates(parts, 2)
    IN  IF qs = <<>> THEN <<0, 0>> ELSE qs[1]

\* next((q for q in quantity_candidates if q > 0), 0.0)
Quantity(parts) == FirstPositive(QuantityCandidates(parts, 2))

ZeroForced(item_code, quantity, line) ==
    \/ quantity[1] = 0
    \/ item_code = "CCBIQF"
    \/ Contains(line, "CHS47UN")
    \/ Contains(line, "DGO237C")
    \/ Contains(line, "CBHWN")

LineTotal(item_code, quantity, line, parts) ==
    IF ZeroForced(item_code, quantity, line) THEN 0
    ELSE LET price_candidates == Prices(parts)
         IN  IF price_candidates # <<>>
             THEN PriceVal(price_candidates[Len(price_candidates)])
             ELSE 0

\* Suppressed with the zero-total filter left out
SuppressedNever(item_code, line_total) == FALSE

\* the zero-total rows that are dropped
Suppressed(item_code, line_total) == line_total = 0 /\ item_code # "CCBIQF"

\* database[database["Item Code"] == item_code]
RECURSIVE Matching(_, _)
Matching(db, item_code) ==
    IF db = <<>> THEN <<>>
    ELSE (IF Head(db).ItemCode = item_code THEN <<Head(db)>> ELSE <<>>)
         \o Matching(Tail(db), item_code)

\* Resolve with the table consulted before the hard-coded codes
ResolveTableFirst(item_code, db) ==
    LET match == Matching(db, item_code)
    IN  IF match # <<>> THEN <<match[1].GLCode, match[1].GLDescription>>
        ELSE IF item_code = "FSC01" THEN <<"DELIVERY", "DELIVERY CHARGE">>
        ELSE IF item_code \in {"JUC15", "JUC14"} THEN <<"600265", "N/A BEVERAGE">>
        ELSE <<"ASK BOSS", "ASK BOSS FOR PROPER GL">>

\* the GL code and description of an item code
Resolve(item_code, db) ==
    IF item_code = "FSC01" THEN <<"DELIVERY", "DELIVERY CHARGE">>
    ELSE IF item_code = "JUC15" THEN <<"600265", "N/A BEVERAGE">>
    ELSE IF item_code = "JUC14" THEN <<"600265", "N/A BEVERAGE">>
    ELSE LET match == Matching(db, item_code)
         IN  IF match # <<>>
             THEN <<match[1].GLCode, match[1].GLDescription>>
             ELSE <<"ASK BOSS", "ASK BOSS FOR PROPER GL">>

\* the item branch: the records (none or one) appended for an item line.  The
\* statements of its try block do not raise on these tokens: float() is applied
\* only to a token of ASCII digits with at most one '.', and to price tokens.
ItemRecords(line, parts, db) ==
    LET item_code == parts[1]
        quantity == Quantity(parts)
        line_total == LineTotal(item_code, quantity, line, parts)
        gl == Resolve(item_code, db)
    IN  IF Suppressed(item_code, line_total) THEN <<>>
        ELSE << [item_code |-> item_code, quantity |-> quantity,
                 line_total |-> line_total, gl_code |-> gl[1], gl_desc |-> gl[2]] >>

IsDepositLine(line) ==
    Contains(line, "DEPOSIT") /\ ~ \E skip \in {"INVOICE TOTAL", "Sub Total"} : Contains(line, skip)

\* DepositRecords taking the first price of the line
DepositRecordsFirstPrice(line) ==
    LET numbers == Prices(Split(line))
    IN  IF numbers # <<>>
        THEN << [item_code |-> "N/A-DEPOSIT", quantity |-> <<1, 0>>,
                 line_total |-> PriceVal(numbers[1]),
                 gl_code |-> "600265", gl_desc |-> "N/A BEVERAGE"] >>
        ELSE <<>>

\* the deposit branch: the records (none or one) appended for a deposit line
DepositRecords(line) ==
    LET numbers == Prices(Split(line))
    IN  IF numbers # <<>>
        THEN << [item_code |-> "N/A-DEPOSIT", quantity |-> <<1, 0>>,
                 line_total |-> PriceVal(numbers[Len(numbers)]),
                 gl_code |-> "600265", gl_desc |-> "N/A BEVERAGE"] >>
        ELSE <<>>

\* what one body line appends to items
Extract(line, db) ==
    LET parts == Split(line)
    IN  IF Len(parts) < 3 THEN <<>>
        ELSE IF IsItemLine(parts) THEN ItemRecords(line, parts, db)
        ELSE IF IsDepositLine(line) THEN DepositRecords(line)
        ELSE <<>>

\* one iteration of `for i, line in enumerate(lines)`
ScanLine ==
    /\ pc = "scan"
    /\ i < Len(lines)
    /\ LET line == Strip(lines[i + 1])
           seg == Segment(line, in_items_section, product_id_found)
           new == IF seg.body THEN Extract(line, database) ELSE <<>>
       IN  /\ in_items_section' = seg.in_items_section
           /\ product_id_found' = seg.product_id_found
           /\ items' = items \o new
           /\ origin' = origin \o [n \in 1..Len(new) |-> i + 1]
           /\ body' = IF seg.body THEN body \cup {i + 1} ELSE body
    /\ i' = i + 1
    /\ pc' = IF i + 1 = Len(lines) THEN "returned" ELSE "scan"
    /\ UNCHANGED <<lines, database, tax_total, invoice_total, summary, report>>

(* ------------------------------ totals -------------------------------- *)

\* the price tokens, in order, of the lines that contain marker
RECURSIVE MarkedNumbers(_, _)
MarkedNumbers(ls, marker) ==
    IF ls = <<>> THEN <<>>
    ELSE (IF Contains(Head(ls), marker) THEN Prices(Split(Head(ls))) ELSE <<>>)
         \o MarkedNumbers(Tail(ls), marker)

\* extract_tax returning the last number found
extract_tax_last(ls) ==
    LET tax_numbers == MarkedNumbers(ls, "Tax Total")
    IN  IF tax_numbers # <<>> THEN PriceVal(tax_numbers[Len(tax_numbers)]) ELSE 0

extract_tax(ls) ==
    LET tax_numbers == MarkedNumbers(ls, "Tax Total")
    IN  IF tax_numbers # <<>> THEN PriceVal(tax_numbers[1]) ELSE 0

\* the first loop of extract_invoice_total: -1 when it falls through
RECURSIVE InvoiceTotalLine(_)
InvoiceTotalLine(ls) ==
    IF ls = <<>> THEN -1
    ELSE LET numbers == Prices(Split(Head(ls)))
         IN  IF Contains(Head(ls), "INVOICE TOTAL") /\ numbers # <<>>
             THEN PriceVal(numbers[Len(numbers)])
             ELSE InvoiceTotalLine(Tail(ls))

\* extract_invoice_total trying the "Tax Total" numbers first
extract_invoice_total_fallback_first(ls) ==
    LET direct == InvoiceTotalLine(ls)
        invoice_total_numbers == MarkedNumbers(ls, "Tax Total")
    IN  IF Len(invoice_total_numbers) >= 2 THEN PriceVal(invoice_total_numbers[2])
        ELSE IF direct # -1 THEN direct
        ELSE 0

extract_invoice_total(ls) ==
    LET direct == InvoiceTotalLine(ls)
        invoice_total_numbers == MarkedNumbers(ls, "Tax Total")
    IN  IF direct # -1 THEN direct
        ELSE IF Len(invoice_total_numbers) >= 2 THEN PriceVal(invoice_total_numbers[2])
        ELSE 0

(* ------------------------------ summary ------------------------------- *)

\* the characters of the model's strings in code point order
Alphabet == " -./0123456789ABCDEFGHIJKLMNOPQRSTUVWXYZabcdefghijklmnopqrstuvwxyz"

Rank(c) == CHOOSE k \in 1..Len(Alphabet) : Ch(Alphabet, k) = c

\* Python: a < b on str
RECURSIVE StrLess(_, _)
StrLess(a, b) ==
    IF Len(b) = 0 THEN FALSE
    ELSE IF Len(a) = 0 THEN TRUE
    ELSE IF Ch(a, 1) # Ch(b, 1) THEN Rank(Ch(a, 1)) < Rank(Ch(b, 1))
    ELSE StrLess(SubSeq(a, 2, Len(a)), SubSeq(b, 2, Len(b)))

RECURSIVE SortKeys(_)
SortKeys(S) ==
    IF S = {} THEN <<>>
    ELSE LET m == CHOOSE a \in S : \A b \in S \ {a} : StrLess(a, b)
         IN  <<m>> \o SortKeys(S \ {m})

RECURSIVE GroupSum(_, _)
GroupSum(its, k) ==
    IF its = <<>> THEN 0
    ELSE (IF Head(its).gl_desc = k THEN Head(its).line_total ELSE 0) + GroupSum(Tail(its), k)

\* df.groupby("GL Description")["Line Total"].sum().to_dict(): the (key, sum)
\* pairs in the order of the dict, which is the sorted order of the keys
generate_summary(its) ==
    IF its = <<>> THEN <<>>
    ELSE LET keys == SortKeys({its[n].gl_desc : n \in 1..Len(its)})
         IN  [n \in 1..Len(keys) |-> <<keys[n], GroupSum(its, keys[n])>>]

RECURSIVE Without(_, _)
Without(sm, k) ==
    IF sm = <<>> THEN <<>>
    ELSE (IF Head(sm)[1] = k THEN <<>> ELSE <<Head(sm)>>) \o Without(Tail(sm), k)

\* summary.pop("DELIVERY CHARGE", 0.0)
PopDelivery(sm) ==
    LET hit == {n \in 1..Len(sm) : sm[n][1] = "DELIVERY CHARGE"}
    IN  IF hit = {} THEN 0 ELSE sm[CHOOSE n \in hit : TRUE][2]

\* the summary rows main prints, in order
SummaryRows(sm) ==
    LET delivery_charge == PopDelivery(sm)
    IN  Without(sm, "DELIVERY CHARGE")
        \o (IF delivery_charge > 0 THEN << <<"DELIVERY CHARGE", delivery_charge>> >> ELSE <<>>)

(* -------------------------------- main -------------------------------- *)

\* if not items: return
CheckItems ==
    /\ pc = "returned"
    /\ pc' = IF items = <<>> THEN "done" ELSE "tax"
    /\ UNCHANGED <<lines, database, i, in_items_section, product_id_found,
                   items, origin, body, tax_total, invoice_total, summary, report>>

ExtractTax ==
    /\ pc = "tax"
    /\ tax_total' = extract_tax(lines)
    /\ pc' = "total"
    /\ UNCHANGED <<lines, database, i, in_items_section, product_id_found,
                   items, origin, body, invoice_total, summary, report>>

ExtractInvoiceTotal ==
    /\ pc = "total"
    /\ invoice_total' = extract_invoice_total(lines)
    /\ pc' = "summary"
    /\ UNCHANGED <<lines, database, i, in_items_section, product_id_found,
                   items, origin, body, tax_total, summary, report>>

GenerateSummary ==
    /\ pc = "summary"
    /\ summary' = generate_summary(items)
    /\ pc' = "display"
    /\ UNCHANGED <<lines, database, i, in_items_section, product_id_found,
                   items, origin, body, tax_total, invoice_total, report>>

Display ==
    /\ pc = "display"
    /\ report' = SummaryRows(summary)
    /\ pc' = "done"
    /\ UNCHANGED <<lines, database, i, in_items_section, product_id_found,
                   items, origin, body, tax_total, invoice_total, summary>>

(* ------------------------------ inputs -------------------------------- *)

\* documents of 1..n lines over a catalogue (text.split('\n') is never empty)
Docs(cat, n) == UNION {[1..k -> cat] : k \in 1..n}

SegCatalogue ==
    {"EBERHARDT FOODS LTD. INVOICE",
     "PRODUCT ID  DESCRIPTION  QTY  PRICE  AMOUNT",
     "PRODUCT ID  DESCRIPTION  RETURNED",
     "PLEASE SIGN HERE",
     "Sub Total 6.00",
     " INVOICE TOTAL 7.50",
     "JUC15   12   12   0.50   6.00",
     "CCBIQF 2 2 1.25 2.50",
     "BOTTLE DEPOSIT 1.50"}

ItemCatalogue ==
    {"",
     "PRODUCT ID  DESCRIPTION  QTY  PRICE  AMOUNT",
     "RETURNS NOT ACCEPTED",
     "Sub Total 6.00",
     "JUC15   12   12   0.50   6.00",
     "ZZTOP9  0   0   3.25   0.00",
     "FSC01 1 1 4.00 4.00",
     "CCBIQF 2 2 1.25 2.50",
     "ABC12 0 3 2.00 6.00",
     "ABC12 2 5.00",
     "XYZ99 CS 1.5 2.00 3.00",
     "PAGE1 1 1 2.00 2.00",
     "ab12 1 1 2.00 2.00",
     "CHS47UN 1 1 2.00 2.00",
     "QQQ11 2 CS EA",
     "JUC14 1 4.00 0.00",
     "DEPOSIT 1.50",
     "BOTTLE DEPOSIT 1.50",
     "BOTTLE DEPOSIT 0.75 1.50",
     "Bottle DEPOSIT 0.10 1.50",
     "Can DEPOSIT 0.00",
     "DEPOSIT DUE NOW"}

TotalsCatalogue ==
    {"Tax Total 1.20",
     "Tax Total 0.70 13.54",
     "Tax Total",
     "INVOICE TOTAL",
     "INVOICE TOTAL 13.54",
     "INVOICE TOTAL 1.00 14.00",
     "Sub Total 12.34",
     "JUC15   12   12   0.50   6.00"}

Row(code, gl, desc) == [ItemCode |-> code, GLCode |-> gl, GLDescription |-> desc]

\* reference tables: empty; one with a duplicated key, a row for an overridden
\* code and a row that files CCBIQF under the delivery group
Databases ==
    { <<>>,
      << Row("ABC12", "500100", "FOOD"), Row("ABC12", "500200", "DAIRY"),
         Row("JUC15", "500100", "FOOD"), Row("BOTTLE", "500100", "FOOD"),
         Row("CCBIQF", "DELIVERY", "DELIVERY CHARGE") >> }

InitWith(docs) ==
    /\ lines \in docs
    /\ database \in Databases
    /\ pc = "scan"
    /\ i = 0
    /\ in_items_section = FALSE
    /\ product_id_found = FALSE
    /\ items = <<>>
    /\ origin = <<>>
    /\ body = {}
    /\ tax_total = 0
    /\ invoice_total = 0
    /\ summary = <<>>
    /\ report = <<>>

Init == InitWith(Docs(SegCatalogue, MaxLines))

InitItems == InitWith(Docs(ItemCatalogue, MaxItemLines))

InitTotals ==
    /\ lines \in Docs(TotalsCatalogue, MaxTotalsLines)
    /\ database = <<>>
    /\ pc = "tax"
    /\ i = 0
    /\ in_items_section = FALSE
    /\ product_id_found = FALSE
    /\ items = <<>>
    /\ origin = <<>>
    /\ body = {}
    /\ tax_total = 0
    /\ invoice_total = 0
    /\ summary = <<>>
    /\ report = <<>>

Next ==
    \/ ScanLine
    \/ CheckItems
    \/ ExtractTax
    \/ ExtractInvoiceTotal
    \/ GenerateSummary
    \/ Display

NextTotals ==
    \/ ExtractTax
    \/ ExtractInvoiceTotal

Spec == Init /\ [][Next]_vars

SpecItems == InitItems /\ [][Next]_vars

SpecTotals == InitTotals /\ [][NextTotals]_vars

(* ------------------------------ claims -------------------------------- *)

\* the tokens of document line j
Toks(j) == Split(lines[j])

\* the positions in items of the records appended while scanning line j
RecsFrom(j) == {n \in 1..Len(origin) : origin[n] = j}

\* the item-code shape test on a first token
CodeShapeOK(tok) ==
    /\ Len(tok) >= 3
    /\ \A k \in 1..Len(tok) : Ch(tok, k) \in Upper \cup Digit
    /\ \A w \in non_product_words : tok # w /\ ~Contains(tok, w)

LastPrice(j) == LET ps == Prices(Toks(j)) IN PriceVal(ps[Len(ps)])

Least(S) == CHOOSE a \in S : \A b \in S : a <= b

\* a line that closes the items section
Closes(l) ==
    \/ \E ind \in footer_indicators : Contains(l, ind)
    \/ Contains(l, "Sub Total")
    \/ Contains(l, "INVOICE TOTAL")

\* C1: once a footer-indicator line or a 'Sub Total' / 'INVOICE TOTAL' line has
\* closed the items section, no record comes from a later line until another
\* header line has been scanned.
C1_ClosedUntilHeader ==
    \A n \in 1..Len(origin) :
        ~ \E c \in 1..(origin[n] - 1) :
            /\ Closes(lines[c])
            /\ \A h \in (c + 1)..(origin[n] - 1) : ~IsHeaderLine(lines[h])

\* C2: no record comes from a line before the first header line, from a header
\* line, from a footer-indicator line or from a 'Sub Total' / 'INVOICE TOTAL'
\* line; a document without a header line yields no items.
C2_NoRecordOutsideBody ==
    /\ \A n \in 1..Len(origin) :
        /\ \E h \in 1..(origin[n] - 1) : IsHeaderLine(lines[h])
        /\ ~IsHeaderLine(lines[origin[n]])
        /\ ~Closes(lines[origin[n]])
    /\ (\A h \in 1..Len(lines) : ~IsHeaderLine(lines[h])) => items = <<>>

\* an item row stands before the first header and the scan still returned items
C2_Witness ==
    /\ pc = "returned"
    /\ items # <<>>
    /\ \E j \in 1..Len(lines) :
        /\ Contains(lines[j], "JUC15")
        /\ \A h \in 1..j : ~IsHeaderLine(lines[h])

\* C3 as stated: a returned record with line_total 0.00 carries the deposit
\* sentinel 'N/A-DEPOSIT'.
C3_ZeroOnlyDepositSentinel ==
    pc = "returned" =>
        \A n \in 1..Len(items) :
            items[n].line_total = 0 => items[n].item_code = "N/A-DEPOSIT"

\* C3 amended: a returned record with line_total 0.00 carries the item code
\* 'CCBIQF' or the deposit sentinel; the Scenario B row yields no record.
C3_ZeroOnlyExceptionCodes ==
    pc = "returned" =>
        /\ \A n \in 1..Len(items) :
            items[n].line_total = 0 => items[n].item_code \in {"CCBIQF", "N/A-DEPOSIT"}
        /\ \A j \in body : Contains(lines[j], "ZZTOP9") => RecsFrom(j) = {}

C3_Witness ==
    /\ pc = "returned"
    /\ \E n \in 1..Len(items) : items[n].line_total = 0 /\ items[n].item_code = "CCBIQF"

\* the deposit record a line j is to yield
IsDepositRecordOf(r, j) ==
    r = [item_code |-> "N/A-DEPOSIT", quantity |-> <<1, 0>>, line_total |-> LastPrice(j),
         gl_code |-> "600265", gl_desc |-> "N/A BEVERAGE"]

DepositCase(j) ==
    /\ j \in body
    /\ Contains(lines[j], "DEPOSIT")
    /\ ~Contains(lines[j], "Sub Total")
    /\ ~Contains(lines[j], "INVOICE TOTAL")
    /\ Prices(Toks(j)) # <<>>

\* C4 as stated: whatever its first token and token count, a body line with
\* 'DEPOSIT', no total marker and a monetary token yields exactly the
\* synthesized deposit record.
C4_DepositAlways ==
    pc = "returned" =>
        \A j \in 1..Len(lines) :
            DepositCase(j) =>
                /\ Cardinality(RecsFrom(j)) = 1
                /\ \A n \in RecsFrom(j) : IsDepositRecordOf(items[n], j)

\* C4 amended: such a line yields exactly the synthesized deposit record when it
\* has at least 3 tokens and is not taken as an item line (at most 3 tokens, or
\* a first token that fails the item-code test); with fewer than 3 tokens it
\* yields nothing, and taken as an item line it yields no deposit record.
C4_DepositUnlessItem ==
    pc = "returned" =>
        /\ \A j \in 1..Len(lines) :
            (/\ DepositCase(j)
             /\ Len(Toks(j)) >= 3
             /\ (Len(Toks(j)) <= 3 \/ ~CodeShapeOK(Toks(j)[1])))
            => /\ Cardinality(RecsFrom(j)) = 1
               /\ \A n \in RecsFrom(j) : IsDepositRecordOf(items[n], j)
        /\ \A j \in 1..Len(lines) :
            (DepositCase(j) /\ Len(Toks(j)) < 3) => RecsFrom(j) = {}
        /\ \A j \in 1..Len(lines) :
            (DepositCase(j) /\ Len(Toks(j)) > 3 /\ CodeShapeOK(Toks(j)[1]))
            => \A n \in RecsFrom(j) : items[n].item_code # "N/A-DEPOSIT"

\* a deposit line with an earlier price on it has been scanned as a body line
C4_Witness ==
    /\ pc = "returned"
    /\ \E j \in 1..Len(lines) :
        /\ DepositCase(j)
        /\ Len(Prices(Toks(j))) >= 2
        /\ ~CodeShapeOK(Toks(j)[1])
        /\ RecsFrom(j) # {}

\* the positions 1..3 (0-based) of line j that hold a strictly positive number
PositiveAt(j) ==
    {k \in 2..4 : k <= Len(Toks(j)) /\ IsNumeric(Toks(j)[k]) /\ FloatVal(Toks(j)[k])[1] > 0}

\* a priced item row of at least n tokens
ItemCase(j, n) ==
    /\ j \in body
    /\ Len(Toks(j)) >= n
    /\ CodeShapeOK(Toks(j)[1])
    /\ Toks(j)[1] # "CCBIQF"
    /\ \A sku \in {"CHS47UN", "DGO237C", "CBHWN"} : ~Contains(lines[j], sku)
    /\ PositiveAt(j) # {}
    /\ Prices(Toks(j)) # <<>>
    /\ LastPrice(j) # 0

ItemRecordOf(r, j) ==
    /\ r.item_code = Toks(j)[1]
    /\ r.quantity = FloatVal(Toks(j)[Least(PositiveAt(j))])
    /\ r.line_total = LastPrice(j)

\* C5 as stated: a priced item row of at least 3 tokens yields exactly one
\* record: its first token, its first positive quantity, its last price.
C5_ItemFromThreeTokens ==
    pc = "returned" =>
        \A j \in 1..Len(lines) :
            ItemCase(j, 3) =>
                /\ Cardinality(RecsFrom(j)) = 1
                /\ \A n \in RecsFrom(j) : ItemRecordOf(items[n], j)

\* C5 amended: the same of a priced item row of at least 4 tokens; a line of 3
\* tokens yields no item record.
C5_ItemFromFourTokens ==
    pc = "returned" =>
        /\ \A j \in 1..Len(lines) :
            ItemCase(j, 4) =>
                /\ Cardinality(RecsFrom(j)) = 1
                /\ \A n \in RecsFrom(j) : ItemRecordOf(items[n], j)
        /\ \A j \in 1..Len(lines) :
            Len(Toks(j)) = 3 => \A n \in RecsFrom(j) : items[n].item_code = "N/A-DEPOSIT"

\* an item row whose first numeric column is zero has been scanned
C5_Witness ==
    /\ pc = "returned"
    /\ \E j \in 1..Len(lines) :
        /\ ItemCase(j, 4)
        /\ IsNumeric(Toks(j)[2]) /\ FloatVal(Toks(j)[2])[1] = 0
        /\ RecsFrom(j) # {}

BadCodeCase(j) ==
    /\ j \in body
    /\ Len(Toks(j)) >= 1
    /\ ~CodeShapeOK(Toks(j)[1])

\* C6 as stated: a body line whose first token fails the item-code shape test
\* appends no record.
C6_BadCodeNoRecord ==
    pc = "returned" =>
        \A j \in 1..Len(lines) : BadCodeCase(j) => RecsFrom(j) = {}

\* C6 amended: such a line appends no item record; the only record it can
\* append is the synthesized deposit record of a line containing 'DEPOSIT'.
C6_BadCodeNoItemRecord ==
    pc = "returned" =>
        \A j \in 1..Len(lines) :
            BadCodeCase(j) =>
                \A n \in RecsFrom(j) :
                    /\ Contains(lines[j], "DEPOSIT")
                    /\ IsDepositRecordOf(items[n], j)

\* a row of more than 3 tokens whose first token contains a stoplist word has
\* been scanned as a body line and appended nothing
C6_Witness ==
    /\ pc = "returned"
    /\ \E j \in 1..Len(lines) :
        /\ BadCodeCase(j)
        /\ Len(Toks(j)) > 3
        /\ Toks(j)[1] \notin non_product_words
        /\ \E w \in non_product_words : Contains(Toks(j)[1], w)
        /\ RecsFrom(j) = {}

\* the rows of the reference table whose key is code
RowsOf(code) == {k \in 1..Len(database) : database[k].ItemCode = code}

\* the GL pair the resolution order gives code
ExpectedGL(code) ==
    IF code = "FSC01" THEN <<"DELIVERY", "DELIVERY CHARGE">>
    ELSE IF code \in {"JUC15", "JUC14"} THEN <<"600265", "N/A BEVERAGE">>
    ELSE IF RowsOf(code) # {}
         THEN <<database[Least(RowsOf(code))].GLCode,
                database[Least(RowsOf(code))].GLDescription>>
    ELSE <<"ASK BOSS", "ASK BOSS FOR PROPER GL">>

\* C7: every returned item record carries the hard-coded pair for FSC01, JUC15
\* and JUC14 whatever the table holds, else the pair of the first table row
\* with its code, else the sentinel pair; a priced item row whose code has no
\* mapping still yields its record.
C7_ResolutionOrder ==
    pc = "returned" =>
        /\ \A n \in 1..Len(items) :
            items[n].item_code # "N/A-DEPOSIT" =>
                <<items[n].gl_code, items[n].gl_desc>> = ExpectedGL(items[n].item_code)
        /\ \A j \in 1..Len(lines) :
            (ItemCase(j, 4) /\ RowsOf(Toks(j)[1]) = {}) => RecsFrom(j) # {}

\* an overridden code that the table files elsewhere has been resolved
C7_Witness ==
    /\ pc = "returned"
    /\ RowsOf("JUC15") # {}
    /\ \E n \in 1..Len(items) : items[n].item_code = "JUC15" /\ items[n].gl_code = "600265"

\* the lines that contain marker and hold a monetary token
Priced(marker) ==
    {k \in 1..Len(lines) : Contains(lines[k], marker) /\ Prices(Toks(k)) # <<>>}

\* the second monetary token found on the 'Tax Total' lines, 0 when under two
SecondTaxNumber ==
    LET T == Priced("Tax Total")
    IN  IF T = {} THEN 0
        ELSE LET a == Least(T)
             IN  IF Len(Prices(Toks(a))) >= 2 THEN PriceVal(Prices(Toks(a))[2])
                 ELSE IF T \ {a} = {} THEN 0
                 ELSE PriceVal(Prices(Toks(Least(T \ {a})))[1])

\* C8 as stated: when a line contains 'INVOICE TOTAL', the result is the last
\* monetary token of the first such line (0.00 when it has none), and the
\* 'Tax Total' fallback is not used.
C8_FirstInvoiceTotalLine ==
    pc = "summary" =>
        LET I == {k \in 1..Len(lines) : Contains(lines[k], "INVOICE TOTAL")}
        IN  IF I # {}
            THEN invoice_total = (IF Prices(Toks(Least(I))) # <<>> THEN LastPrice(Least(I)) ELSE 0)
            ELSE invoice_total = SecondTaxNumber

\* C8 amended: the result is the last monetary token of the first line that
\* contains 'INVOICE TOTAL' and holds a monetary token; when there is no such
\* line it is the second monetary token found on the 'Tax Total' lines, and
\* 0.00 when they hold fewer than two.
C8_FirstPricedInvoiceTotalLine ==
    pc = "summary" =>
        IF Priced("INVOICE TOTAL") # {}
        THEN invoice_total = LastPrice(Least(Priced("INVOICE TOTAL")))
        ELSE invoice_total = SecondTaxNumber

\* an 'INVOICE TOTAL' line with two amounts decided the total although the
\* 'Tax Total' lines hold two amounts as well
C8_Witness ==
    /\ pc = "summary"
    /\ Priced("INVOICE TOTAL") # {}
    /\ Len(Prices(Toks(Least(Priced("INVOICE TOTAL"))))) >= 2
    /\ SecondTaxNumber # 0
    /\ invoice_total # SecondTaxNumber

\* C9 as stated: the result is the first monetary token of the first line that
\* contains 'Tax Total', and 0.00 when that line has none or no such line
\* exists.
C9_FirstTaxTotalLine ==
    pc \in {"total", "summary"} =>
        LET T == {k \in 1..Len(lines) : Contains(lines[k], "Tax Total")}
        IN  tax_total = (IF T # {} /\ Prices(Toks(Least(T))) # <<>>
                         THEN PriceVal(Prices(Toks(Least(T)))[1]) ELSE 0)

\* C9 amended: the result is the first monetary token of the first line that
\* contains 'Tax Total' and holds a monetary token, and 0.00 when there is no
\* such line.
C9_FirstPricedTaxTotalLine ==
    pc \in {"total", "summary"} =>
        tax_total = (IF Priced("Tax Total") # {}
                     THEN PriceVal(Prices(Toks(Least(Priced("Tax Total"))))[1]) ELSE 0)

\* two 'Tax Total' lines with different amounts have been read
C9_Witness ==
    /\ pc = "total"
    /\ Cardinality(Priced("Tax Total")) >= 2
    /\ tax_total # 0
    /\ \E k \in Priced("Tax Total") : PriceVal(Prices(Toks(k))[1]) # tax_total

RECURSIVE SumTotals(_)
SumTotals(S) ==
    IF S = {} THEN 0
    ELSE LET n == CHOOSE m \in S : TRUE IN items[n].line_total + SumTotals(S \ {n})

\* C10: the summary maps each gl_description to the sum of the line totals of
\* the records with it, and a 'DELIVERY CHARGE' key of the summary is the last
\* summary row of the report.
C10_SummaryAndDeliveryLast ==
    pc = "done" /\ items # <<>> =>
        /\ {summary[n][1] : n \in 1..Len(summary)} = {items[n].gl_desc : n \in 1..Len(items)}
        /\ \A n \in 1..Len(summary) :
            summary[n][2] = SumTotals({m \in 1..Len(items) : items[m].gl_desc = summary[n][1]})
        /\ (\E n \in 1..Len(summary) : summary[n][1] = "DELIVERY CHARGE") =>
            /\ report # <<>>
            /\ report[Len(report)][1] = "DELIVERY CHARGE"

====
